---- MODULE Spec2Model ----
(***************************************************************************)
(* The notify hook docs/examples/hooks/all-commands.notify.py of mine:     *)
(* main() reads one JSON document from standard input, resolves the log    *)
(* path from the environment, creates the parent directories, builds a     *)
(* four-field entry and appends it as one JSON line to the log file.       *)
(*                                                                         *)
(* Text (standard input, file content, environment values) is a sequence   *)
(* of units; a unit is one character of the alphabet below (a key name or  *)
(* a word such as null is one unbreakable unit of that alphabet).          *)
(***************************************************************************)
EXTENDS Integers, Sequences, FiniteSets, TLC

VARIABLES
    pc,          \* each process: the step of main() it is about to run
    stdin,       \* each process: the text on its standard input
    environ,     \* each process: its environment variables
    context,     \* main's local `context`
    log_path,    \* main's local `log_path`
    entry,       \* main's local `entry`
    f,           \* main's local `f`: the open file and the offset it was opened at
    exit_status, \* the status the process exited with
    failed_at,   \* the step whose uncaught exception ended the process
    dirs,        \* file system: the directories that exist
    files,       \* file system: the regular files that exist, with their content
    readonly,    \* file system: the directories in which nothing may be created
    dirs0,       \* history: the directories before the first invocation
    files0,      \* history: the regular files before the first invocation
    started,     \* history: how many invocations were started
    inv,         \* history: each process's invocation number
    writes       \* history: the write calls that reached the file, in order

vars == <<pc, stdin, environ, context, log_path, entry, f, exit_status, failed_at,
          dirs, files, readonly, dirs0, files0, started, inv, writes>>

(***************************************************************************)
(* Bounds of the model.                                                    *)
(***************************************************************************)
MaxArgs == 2
MaxFlags == 2
MaxInvocations == 3

Procs == {"p1", "p2"}

(***************************************************************************)
(* Characters.                                                             *)
(***************************************************************************)
NL == "\n"
QUOTE == "\""
BSL == "\\"
SP == " "
Ws == {SP, NL}
Digits == <<"0", "1", "2", "3", "4", "5", "6", "7", "8", "9">>

IsPrefix(s, t) == Len(s) <= Len(t) /\ SubSeq(t, 1, Len(s)) = s

RECURSIVE Concat(_)
Concat(parts) ==
    IF parts = <<>> THEN <<>> ELSE Head(parts) \o Concat(Tail(parts))

RECURSIVE Join(_, _)
Join(parts, sep) ==
    IF parts = <<>> THEN <<>>
    ELSE IF Len(parts) = 1 THEN parts[1]
    ELSE parts[1] \o sep \o Join(Tail(parts), sep)

(***************************************************************************)
(* Python values: None, bool, int, str, list, dict. A dict is the         *)
(* sequence of its <<key, value>> pairs in insertion order, keys distinct. *)
(***************************************************************************)
PyNone == [t |-> "null", v |-> <<>>]
PyBool(b) == [t |-> "bool", v |-> b]
PyInt(n) == [t |-> "int", v |-> n]
PyStr(s) == [t |-> "str", v |-> s]
PyList(a) == [t |-> "list", v |-> a]
PyDict(d) == [t |-> "dict", v |-> d]

HasKey(d, k) == \E i \in 1..Len(d.v) : d.v[i][1] = k

\* dict.get(key, default)
DictGet(d, k, default) ==
    IF HasKey(d, k)
    THEN d.v[CHOOSE i \in 1..Len(d.v) : d.v[i][1] = k][2]
    ELSE default

\* d[key] = value: a key already present keeps its place
DictSet(d, k, val) ==
    IF HasKey(d, k)
    THEN PyDict([i \in 1..Len(d.v) |-> IF d.v[i][1] = k THEN <<k, val>> ELSE d.v[i]])
    ELSE PyDict(Append(d.v, <<k, val>>))

\* the types len() accepts; any other raises TypeError
HasLen(x) == x.t \in {"str", "list", "dict"}
PyLen(x) == Len(x.v)

(***************************************************************************)
(* json.dumps with its defaults: separators ", " and ": ", strings quoted  *)
(* and escaped.                                                            *)
(***************************************************************************)
RECURSIVE IntToStr(_)
IntToStr(n) ==
    IF n < 10 THEN <<Digits[n + 1]>>
    ELSE IntToStr(n \div 10) \o <<Digits[(n % 10) + 1]>>

EscapeChar(c) ==
    IF c = QUOTE THEN <<BSL, QUOTE>>
    ELSE IF c = BSL THEN <<BSL, BSL>>
    ELSE IF c = NL THEN <<BSL, "n">>
    ELSE <<c>>

DumpsStr(s) ==
    <<QUOTE>> \o Concat([i \in 1..Len(s) |-> EscapeChar(s[i])]) \o <<QUOTE>>

RECURSIVE Dumps(_)
Dumps(x) ==
    CASE x.t = "null" -> <<"null">>
      [] x.t = "bool" -> IF x.v THEN <<"true">> ELSE <<"false">>
      [] x.t = "int"  -> IntToStr(x.v)
      [] x.t = "str"  -> DumpsStr(x.v)
      [] x.t = "list" ->
            <<"[">> \o Join([i \in 1..Len(x.v) |-> Dumps(x.v[i])], <<",", SP>>)
                    \o <<"]">>
      [] x.t = "dict" ->
            <<"{">> \o Join([i \in 1..Len(x.v) |->
                                DumpsStr(x.v[i][1]) \o <<":", SP>> \o Dumps(x.v[i][2])],
                            <<",", SP>>)
                    \o <<"}">>

(***************************************************************************)
(* json.load: a recursive-descent parse of one JSON document. A parse      *)
(* result is [ok, val, rest]; ok = FALSE stands for JSONDecodeError.       *)
(***************************************************************************)
ParseFail == [ok |-> FALSE, val |-> PyNone, rest |-> <<>>]
ParseOk(x, r) == [ok |-> TRUE, val |-> x, rest |-> r]

RECURSIVE SkipWs(_)
SkipWs(s) == IF s # <<>> /\ s[1] \in Ws THEN SkipWs(Tail(s)) ELSE s

IsDigit(c) == \E d \in 1..10 : Digits[d] = c
DigitVal(c) == (CHOOSE d \in 1..10 : Digits[d] = c) - 1

RECURSIVE ParseDigits(_, _)
ParseDigits(s, acc) ==
    IF s # <<>> /\ IsDigit(s[1])
    THEN ParseDigits(Tail(s), 10 * acc + DigitVal(s[1]))
    ELSE ParseOk(PyInt(acc), s)

\* a leading 0 is a number of its own
ParseNumber(s) ==
    IF s[1] = "0" THEN ParseOk(PyInt(0), Tail(s)) ELSE ParseDigits(s, 0)

\* the characters of a string, after its opening quote
RECURSIVE ParseChars(_, _)
ParseChars(s, acc) ==
    IF s = <<>> THEN ParseFail
    ELSE IF s[1] = QUOTE THEN ParseOk(PyStr(acc), Tail(s))
    ELSE IF s[1] = NL THEN ParseFail
    ELSE IF s[1] = BSL THEN
        IF Len(s) < 2 THEN ParseFail
        ELSE IF s[2] \in {QUOTE, BSL}
             THEN ParseChars(SubSeq(s, 3, Len(s)), Append(acc, s[2]))
        ELSE IF s[2] = "n"
             THEN ParseChars(SubSeq(s, 3, Len(s)), Append(acc, NL))
        ELSE ParseFail
    ELSE ParseChars(Tail(s), Append(acc, s[1]))

RECURSIVE ParseValue(_)
RECURSIVE ParseElems(_, _)
RECURSIVE ParseMembers(_, _)

ParseValue(s) ==
    IF s = <<>> THEN ParseFail
    ELSE IF s[1] = "null" THEN ParseOk(PyNone, Tail(s))
    ELSE IF s[1] = "true" THEN ParseOk(PyBool(TRUE), Tail(s))
    ELSE IF s[1] = "false" THEN ParseOk(PyBool(FALSE), Tail(s))
    ELSE IF IsDigit(s[1]) THEN ParseNumber(s)
    ELSE IF s[1] = QUOTE THEN ParseChars(Tail(s), <<>>)
    ELSE IF s[1] = "[" THEN
        LET r == SkipWs(Tail(s)) IN
        IF r # <<>> /\ r[1] = "]" THEN ParseOk(PyList(<<>>), Tail(r))
        ELSE ParseElems(r, <<>>)
    ELSE IF s[1] = "{" THEN
        LET r == SkipWs(Tail(s)) IN
        IF r # <<>> /\ r[1] = "}" THEN ParseOk(PyDict(<<>>), Tail(r))
        ELSE ParseMembers(r, PyDict(<<>>))
    ELSE ParseFail

ParseElems(s, acc) ==
    LET x == ParseValue(s)
        r == SkipWs(x.rest)
    IN  IF ~x.ok \/ r = <<>> THEN ParseFail
        ELSE IF r[1] = "," THEN ParseElems(SkipWs(Tail(r)), Append(acc, x.val))
        ELSE IF r[1] = "]" THEN ParseOk(PyList(Append(acc, x.val)), Tail(r))
        ELSE ParseFail

ParseMembers(s, acc) ==
    IF s = <<>> \/ s[1] # QUOTE THEN ParseFail
    ELSE
        LET k == ParseChars(Tail(s), <<>>)
            c == SkipWs(k.rest)
        IN  IF ~k.ok \/ c = <<>> \/ c[1] # ":" THEN ParseFail
            ELSE
                LET x == ParseValue(SkipWs(Tail(c)))
                    r == SkipWs(x.rest)
                IN  IF ~x.ok \/ r = <<>> THEN ParseFail
                    ELSE IF r[1] = ","
                         THEN ParseMembers(SkipWs(Tail(r)), DictSet(acc, k.val.v, x.val))
                    ELSE IF r[1] = "}"
                         THEN ParseOk(DictSet(acc, k.val.v, x.val), Tail(r))
                    ELSE ParseFail

\* a parse error taken for an empty object
LoadsLenient(s) ==
    LET x == ParseValue(SkipWs(s)) IN
    IF x.ok /\ SkipWs(x.rest) = <<>> THEN ParseOk(x.val, <<>>) ELSE ParseOk(PyDict(<<>>), <<>>)

\* the whole text is one document: anything but white space after it is an error
Loads(s) ==
    LET x == ParseValue(SkipWs(s)) IN
    IF x.ok /\ SkipWs(x.rest) = <<>> THEN ParseOk(x.val, <<>>) ELSE ParseFail

(***************************************************************************)
(* Paths. A directory string is text whose separator is the unit "/"; a    *)
(* Path is the sequence of its components, the first being "/" when it is  *)
(* absolute. The operating system resolves a relative path against the     *)
(* working directory of the process.                                       *)
(***************************************************************************)
Root == <<"/">>
Cwd == <<"/", "cwd">>
HomeStr == <<"/", "home">>
XdgStr == <<"/", "xdg">>
DefaultStr == <<"~", "/", ".local", "/", "share">>

\* os.path.expanduser: a leading ~ becomes $HOME
ExpandUser(s, env) ==
    IF s # <<>> /\ s[1] = "~" /\ "HOME" \in DOMAIN env
    THEN env["HOME"] \o Tail(s)
    ELSE s

\* pathlib.Path(s): Path("") is the relative path with no component
PathOf(s) ==
    (IF s # <<>> /\ s[1] = "/" THEN Root ELSE <<>>)
        \o SelectSeq(s, LAMBDA u : u # "/")

\* path / name
PathJoin(p, name) == Append(p, name)

\* path.parent: the root and the empty relative path are their own parent
Parent(p) ==
    IF p = Root \/ p = <<>> THEN p ELSE SubSeq(p, 1, Len(p) - 1)

IsAbs(p) == p # <<>> /\ p[1] = "/"
Abs(p) == IF IsAbs(p) THEN p ELSE Cwd \o p

(***************************************************************************)
(* The file system calls main() makes, on a file system (ds, fl, ro):      *)
(* the directories, the regular files, the directories that deny creation. *)
(***************************************************************************)
\* mkdir(2) of the absolute path a
OsMkdir(ds, fl, ro, a) ==
    IF a \in ds \/ a \in DOMAIN fl THEN [err |-> "EEXIST", dirs |-> ds]
    ELSE IF Parent(a) \in DOMAIN fl THEN [err |-> "ENOTDIR", dirs |-> ds]
    ELSE IF Parent(a) \notin ds THEN [err |-> "ENOENT", dirs |-> ds]
    ELSE IF Parent(a) \in ro THEN [err |-> "EACCES", dirs |-> ds]
    ELSE [err |-> "", dirs |-> ds \cup {a}]

\* the element of a one-element set
Only(S) == CHOOSE x \in S : TRUE

\* pathlib.Path.mkdir(parents, exist_ok): [ok, dirs]; the directories made
\* before a failure stay. r is the outcome of os.mkdir(p), up the outcome of
\* the recursive call on the parent, each computed once
RECURSIVE PathMkdir(_, _, _, _, _, _)
PathMkdir(ds, fl, ro, p, parents, exist_ok) ==
    Only({ IF r.err = "" THEN [ok |-> TRUE, dirs |-> r.dirs]
           ELSE IF r.err = "ENOENT" THEN
               IF ~parents \/ Parent(p) = p THEN [ok |-> FALSE, dirs |-> ds]
               ELSE Only({ IF ~up.ok THEN up
                           ELSE PathMkdir(up.dirs, fl, ro, p, FALSE, exist_ok) :
                           up \in {PathMkdir(ds, fl, ro, Parent(p), TRUE, TRUE)} })
           ELSE [ok |-> exist_ok /\ Abs(p) \in ds, dirs |-> ds] :
           r \in {OsMkdir(ds, fl, ro, Abs(p))} })

\* open(2) with O_WRONLY | O_CREAT | O_APPEND of the absolute path a
OsOpenAppend(ds, fl, ro, a) ==
    IF a \in ds THEN [err |-> "EISDIR", files |-> fl]
    ELSE IF Parent(a) \notin ds THEN [err |-> "ENOENT", files |-> fl]
    ELSE IF a \in DOMAIN fl THEN [err |-> "", files |-> fl]
    ELSE IF Parent(a) \in ro THEN [err |-> "EACCES", files |-> fl]
    ELSE [err |-> "", files |-> (a :> <<>>) @@ fl]

\* the same with O_TRUNC in the place of O_APPEND: open(path, "w")
OsOpenTruncate(ds, fl, ro, a) ==
    IF a \in ds THEN [err |-> "EISDIR", files |-> fl]
    ELSE IF Parent(a) \notin ds THEN [err |-> "ENOENT", files |-> fl]
    ELSE IF a \in DOMAIN fl THEN [err |-> "", files |-> [fl EXCEPT ![a] = <<>>]]
    ELSE IF Parent(a) \in ro THEN [err |-> "EACCES", files |-> fl]
    ELSE [err |-> "", files |-> (a :> <<>>) @@ fl]

\* write(2) of data to a file whose content is old, opened at offset pos:
\* without O_APPEND the data goes to the offset of the descriptor
WriteAtOffset(old, pos, data) ==
    SubSeq(old, 1, pos) \o data \o SubSeq(old, pos + Len(data) + 1, Len(old))

\* with O_APPEND every write goes to the end the file has at that moment
WriteAppend(old, pos, data) == old \o data

(***************************************************************************)
(* main(), line by line.                                                   *)
(***************************************************************************)
\* os.environ.get(name, default)
EnvGet(env, name, default) == IF name \in DOMAIN env THEN env[name] ELSE default

\* data_dir = os.environ.get("XDG_DATA_HOME", os.path.expanduser("~/.local/share"))
DataDir(env) == EnvGet(env, "XDG_DATA_HOME", ExpandUser(DefaultStr, env))

\* log_path = Path(data_dir) / "mine" / "command_log.jsonl"
LogPath(data_dir) == PathJoin(PathJoin(PathOf(data_dir), "mine"), "command_log.jsonl")

\* mkdir without exist_ok
EnsureParentStrict(ds, fl, ro, p) == PathMkdir(ds, fl, ro, Parent(p), TRUE, FALSE)

\* log_path.parent.mkdir(parents=True, exist_ok=True)
EnsureParent(ds, fl, ro, p) == PathMkdir(ds, fl, ro, Parent(p), TRUE, TRUE)

\* the two counts taken from each other's field
BuildEntrySwapped(ctx, now) ==
    IF ctx.t # "dict" THEN [ok |-> FALSE, val |-> PyNone]
    ELSE
        LET args == DictGet(ctx, <<"args">>, PyList(<<>>))
            flags == DictGet(ctx, <<"flags">>, PyDict(<<>>))
        IN  IF ~HasLen(args) \/ ~HasLen(flags) THEN [ok |-> FALSE, val |-> PyNone]
            ELSE [ok |-> TRUE,
                  val |-> PyDict(<<
                    << <<"command">>, DictGet(ctx, <<"command">>, PyStr(<<"unknown">>)) >>,
                    << <<"timestamp">>, DictGet(ctx, <<"timestamp">>, PyStr(now)) >>,
                    << <<"args_count">>, PyInt(PyLen(flags)) >>,
                    << <<"flags_count">>, PyInt(PyLen(args)) >> >>)]

\* context["command"] in the place of context.get("command", "unknown")
BuildEntryStrict(ctx, now) ==
    IF ctx.t # "dict" \/ ~HasKey(ctx, <<"command">>) THEN [ok |-> FALSE, val |-> PyNone]
    ELSE
        LET args == DictGet(ctx, <<"args">>, PyList(<<>>))
            flags == DictGet(ctx, <<"flags">>, PyDict(<<>>))
        IN  IF ~HasLen(args) \/ ~HasLen(flags) THEN [ok |-> FALSE, val |-> PyNone]
            ELSE [ok |-> TRUE,
                  val |-> PyDict(<<
                    << <<"command">>, DictGet(ctx, <<"command">>, PyStr(<<"unknown">>)) >>,
                    << <<"timestamp">>, DictGet(ctx, <<"timestamp">>, PyStr(now)) >>,
                    << <<"args_count">>, PyInt(PyLen(args)) >>,
                    << <<"flags_count">>, PyInt(PyLen(flags)) >> >>)]

\* entry = {...}: [ok, val]; ok = FALSE stands for the AttributeError of
\* context.get on a value that is no dict, or the TypeError of len()
BuildEntry(ctx, now) ==
    IF ctx.t # "dict" THEN [ok |-> FALSE, val |-> PyNone]
    ELSE
        LET args == DictGet(ctx, <<"args">>, PyList(<<>>))
            flags == DictGet(ctx, <<"flags">>, PyDict(<<>>))
        IN  IF ~HasLen(args) \/ ~HasLen(flags) THEN [ok |-> FALSE, val |-> PyNone]
            ELSE [ok |-> TRUE,
                  val |-> PyDict(<<
                    << <<"command">>, DictGet(ctx, <<"command">>, PyStr(<<"unknown">>)) >>,
                    << <<"timestamp">>, DictGet(ctx, <<"timestamp">>, PyStr(now)) >>,
                    << <<"args_count">>, PyInt(PyLen(args)) >>,
                    << <<"flags_count">>, PyInt(PyLen(flags)) >> >>)]

\* open(log_path, "w")
OpenLogTruncating(ds, fl, ro, p) == OsOpenTruncate(ds, fl, ro, Abs(p))

\* open(log_path, "a")
OpenLog(ds, fl, ro, p) == OsOpenAppend(ds, fl, ro, Abs(p))

\* the text f.write is given: json.dumps(entry) + "\n"
Line(e) == Dumps(e) \o <<NL>>

\* the write of a file opened without O_APPEND
WriteLogAtOffset(old, pos, data) == WriteAtOffset(old, pos, data)

\* f.write(...) and the close at the end of the with block, on a file opened "a"
WriteLog(old, pos, data) == WriteAppend(old, pos, data)

\* datetime.now(timezone.utc).isoformat(): the instants the clock may show
Clock == {<<"2026-01-01T00:00:00+00:00">>, <<"2026-01-01T00:00:01+00:00">>}

\* where a write call that fails (the disk is full) may stop: before the
\* first unit, after it, or before the last
TornCuts(data) == {0, 1, Len(data) - 1}

NoHandle == [path |-> <<>>, pos |-> 0]
Running == {"parse", "resolve", "mkdir", "build", "open", "write"}
Terminal == {"done", "failed"}

\* the file opened before the entry is built
NextStepOpenFirst(step) ==
    CASE step = "parse"   -> "resolve"
      [] step = "resolve" -> "mkdir"
      [] step = "mkdir"   -> "open"
      [] step = "open"    -> "build"
      [] step = "build"   -> "write"
      [] step = "write"   -> "done"

\* the entry built before the directories are made
NextStepBuildFirst(step) ==
    CASE step = "parse"   -> "resolve"
      [] step = "resolve" -> "build"
      [] step = "build"   -> "mkdir"
      [] step = "mkdir"   -> "open"
      [] step = "open"    -> "write"
      [] step = "write"   -> "done"

\* the statements of main() in the order they run; main() returns after the last
NextStep(step) ==
    CASE step = "parse"   -> "resolve"
      [] step = "resolve" -> "mkdir"
      [] step = "mkdir"   -> "build"
      [] step = "build"   -> "open"
      [] step = "open"    -> "write"
      [] step = "write"   -> "done"

(***************************************************************************)
(* The inputs.                                                             *)
(***************************************************************************)
Absent == [t |-> "absent", v |-> <<>>]

\* the JSON object with the given fields, a field that is Absent left out
Context(command, timestamp, args, flags) ==
    LET all == << << <<"command">>, command >>, << <<"timestamp">>, timestamp >>,
                  << <<"args">>, args >>, << <<"flags">>, flags >> >>
    IN  PyDict(SelectSeq(all, LAMBDA kv : kv[2] # Absent))

ArgsOf(n) == PyList([i \in 1..n |-> PyStr(<<"--release">>)])
FlagsOf(m) == PyDict([i \in 1..m |-> << <<"f">> \o IntToStr(i), PyBool(TRUE) >>])

Commands == {Absent, PyStr(<<"build">>), PyStr(<<"a", NL, QUOTE, BSL>>)}
Timestamps == {Absent, PyStr(<<"2024-01-01T00:00:00Z">>)}
ArgsValues == {Absent, PyNone} \cup {ArgsOf(n) : n \in 0..MaxArgs}
FlagsValues == {Absent, PyInt(7)} \cup {FlagsOf(m) : m \in 0..MaxFlags}

Contexts ==
    {Context(c, t, a, fl) : c \in Commands, t \in Timestamps,
                            a \in ArgsValues, fl \in FlagsValues}

Example == Context(PyStr(<<"build">>), PyStr(<<"2024-01-01T00:00:00Z">>), ArgsOf(1), FlagsOf(1))

\* JSON that is no object
NonObjects == {PyList(<<>>), PyNone, PyInt(7)}

\* text that is no JSON document: nothing, white space, a word, a cut object
NonJson == {<<>>, <<NL>>, <<"x">>, SubSeq(Dumps(Example), 1, Len(Dumps(Example)) - 1)}

Stdins == {Dumps(c) : c \in Contexts \cup NonObjects} \cup NonJson

Environs ==
    {[HOME |-> HomeStr],
     [HOME |-> HomeStr, XDG_DATA_HOME |-> XdgStr],
     [HOME |-> HomeStr, XDG_DATA_HOME |-> <<>>]}

\* the inputs of the runs with several invocations
FewStdins ==
    {<<>>,
     Dumps(Context(PyStr(<<"a", NL, QUOTE, BSL>>), PyStr(<<"2024-01-01T00:00:00Z">>),
                   ArgsOf(1), Absent)),
     Dumps(Context(Absent, Absent, PyNone, Absent))}

FewEnvirons == {[HOME |-> HomeStr], [HOME |-> HomeStr, XDG_DATA_HOME |-> XdgStr]}

\* json.load(sys.stdin) on each text the hook is given: the parse of a text is
\* worked out once, not at every step that reads it
Documents == [t \in Stdins |-> Loads(t)]
JsonLoad(t) == Documents[t]

(***************************************************************************)
(* The file systems an invocation may find.                                *)
(***************************************************************************)
LogPaths == {Abs(LogPath(DataDir(env))) : env \in Environs}
LogDirs == {Parent(a) : a \in LogPaths}
DataDirs == {Parent(d) : d \in LogDirs}
BaseDirs == {Root, Cwd, PathOf(HomeStr)}

\* every directory on the way to the paths of S
RECURSIVE Ancestors(_)
Ancestors(S) ==
    LET up == S \cup {Parent(a) : a \in S} IN IF up = S THEN S ELSE Ancestors(up)

\* a line an earlier run left in the log
PriorLog == Line(BuildEntry(PyDict(<<>>), <<"2025-12-31T23:59:59+00:00">>).val)

Scenarios == {"fresh", "ready", "used", "blocked", "denied", "sealed", "isdir"}

ScenarioDirs(sc) ==
    CASE sc = "fresh"   -> BaseDirs
      [] sc = "ready"   -> BaseDirs \cup Ancestors(LogDirs)
      [] sc = "used"    -> BaseDirs \cup Ancestors(LogDirs)
      [] sc = "blocked" -> BaseDirs \cup Ancestors(DataDirs)
      [] sc = "denied"  -> BaseDirs \cup Ancestors(DataDirs)
      [] sc = "sealed"  -> BaseDirs \cup Ancestors(LogDirs)
      [] sc = "isdir"   -> BaseDirs \cup Ancestors(LogPaths)

ScenarioFiles(sc) ==
    CASE sc = "used"    -> [a \in LogPaths |-> PriorLog]
      [] sc = "blocked" -> [a \in LogDirs |-> <<"x">>]
      [] OTHER          -> [a \in {} |-> <<>>]

ScenarioReadonly(sc) ==
    CASE sc = "denied" -> DataDirs
      [] sc = "sealed" -> LogDirs
      [] OTHER         -> {}

(***************************************************************************)
(* The state before any invocation, and the steps of an invocation.        *)
(***************************************************************************)
InitProcs ==
    /\ pc = [p \in Procs |-> "idle"]
    /\ stdin = [p \in Procs |-> <<>>]
    /\ environ = [p \in Procs |-> [HOME |-> HomeStr]]
    /\ context = [p \in Procs |-> PyNone]
    /\ log_path = [p \in Procs |-> <<>>]
    /\ entry = [p \in Procs |-> PyNone]
    /\ f = [p \in Procs |-> NoHandle]
    /\ exit_status = [p \in Procs |-> -1]
    /\ failed_at = [p \in Procs |-> ""]
    /\ started = 0
    /\ inv = [p \in Procs |-> 0]
    /\ writes = <<>>

InitFs ==
    \E sc \in Scenarios :
        /\ dirs = ScenarioDirs(sc)
        /\ files = ScenarioFiles(sc)
        /\ readonly = ScenarioReadonly(sc)
        /\ dirs0 = ScenarioDirs(sc)
        /\ files0 = ScenarioFiles(sc)

Init == InitProcs /\ InitFs

\* the host starts the hook as a new process, with its input and environment
Invoke(p, inputs, envs) ==
    /\ pc[p] \in {"idle"} \cup Terminal
    /\ started < MaxInvocations
    /\ \E in \in inputs, env \in envs :
        /\ stdin' = [stdin EXCEPT ![p] = in]
        /\ environ' = [environ EXCEPT ![p] = env]
    /\ pc' = [pc EXCEPT ![p] = "parse"]
    /\ context' = [context EXCEPT ![p] = PyNone]
    /\ log_path' = [log_path EXCEPT ![p] = <<>>]
    /\ entry' = [entry EXCEPT ![p] = PyNone]
    /\ f' = [f EXCEPT ![p] = NoHandle]
    /\ exit_status' = [exit_status EXCEPT ![p] = -1]
    /\ failed_at' = [failed_at EXCEPT ![p] = ""]
    /\ started' = started + 1
    /\ inv' = [inv EXCEPT ![p] = started + 1]
    /\ UNCHANGED <<dirs, files, readonly, dirs0, files0, writes>>

\* the exception caught and the process ended with status 0
RaiseSwallowed(p, step) ==
    /\ pc' = [pc EXCEPT ![p] = "failed"]
    /\ exit_status' = [exit_status EXCEPT ![p] = 0]
    /\ failed_at' = [failed_at EXCEPT ![p] = step]

\* an uncaught exception at `step`: the interpreter exits with status 1
Raise(p, step) ==
    /\ pc' = [pc EXCEPT ![p] = "failed"]
    /\ exit_status' = [exit_status EXCEPT ![p] = 1]
    /\ failed_at' = [failed_at EXCEPT ![p] = step]

\* the statement at `step` completed: on to the next, or return from main()
\* and exit with status 0
Completed(p, step) ==
    /\ pc' = [pc EXCEPT ![p] = NextStep(step)]
    /\ exit_status' = [exit_status EXCEPT ![p] = IF NextStep(step) = "done" THEN 0 ELSE @]
    /\ UNCHANGED failed_at

\* context = json.load(sys.stdin)
Parse(p) ==
    /\ pc[p] = "parse"
    /\ LET r == JsonLoad(stdin[p]) IN
        IF r.ok
        THEN context' = [context EXCEPT ![p] = r.val] /\ Completed(p, "parse")
        ELSE UNCHANGED context /\ Raise(p, "parse")
    /\ UNCHANGED <<stdin, environ, log_path, entry, f, dirs, files, readonly,
                   dirs0, files0, started, inv, writes>>

\* data_dir = ...; log_path = ...
Resolve(p) ==
    /\ pc[p] = "resolve"
    /\ log_path' = [log_path EXCEPT ![p] = LogPath(DataDir(environ[p]))]
    /\ Completed(p, "resolve")
    /\ UNCHANGED <<stdin, environ, context, entry, f, dirs, files, readonly,
                   dirs0, files0, started, inv, writes>>

\* log_path.parent.mkdir(parents=True, exist_ok=True)
Mkdir(p) ==
    /\ pc[p] = "mkdir"
    /\ \E r \in {EnsureParent(dirs, files, readonly, log_path[p])} :
        /\ dirs' = r.dirs
        /\ IF r.ok THEN Completed(p, "mkdir") ELSE Raise(p, "mkdir")
    /\ UNCHANGED <<stdin, environ, context, log_path, entry, f, files, readonly,
                   dirs0, files0, started, inv, writes>>

\* entry = {...}
Build(p) ==
    /\ pc[p] = "build"
    /\ \E now \in Clock :
        LET r == BuildEntry(context[p], now) IN
        IF r.ok
        THEN entry' = [entry EXCEPT ![p] = r.val] /\ Completed(p, "build")
        ELSE UNCHANGED entry /\ Raise(p, "build")
    /\ UNCHANGED <<stdin, environ, context, log_path, f, dirs, files, readonly,
                   dirs0, files0, started, inv, writes>>

\* with open(log_path, "a") as f:
Open(p) ==
    /\ pc[p] = "open"
    /\ LET a == Abs(log_path[p])
           r == OpenLog(dirs, files, readonly, log_path[p])
       IN  /\ files' = r.files
           /\ IF r.err = ""
              THEN /\ f' = [f EXCEPT ![p] = [path |-> a, pos |-> Len(r.files[a])]]
                   /\ Completed(p, "open")
              ELSE UNCHANGED f /\ Raise(p, "open")
    /\ UNCHANGED <<stdin, environ, context, log_path, entry, dirs, readonly,
                   dirs0, files0, started, inv, writes>>

\* history: process p's write call put `data` into the file; `pos` is the
\* offset the file was opened at, `at` the end of the file when the data came
WriteRecord(p, data, whole) ==
    [inv |-> inv[p], path |-> f[p].path, entry |-> entry[p], data |-> data,
     whole |-> whole, pos |-> f[p].pos, at |-> Len(files[f[p].path])]

\* f.write(json.dumps(entry) + "\n"), flushed by the close that ends the with
\* block: one write call carrying the whole line; main() returns, status 0
Write(p) ==
    /\ pc[p] = "write"
    /\ \E data \in {Line(entry[p])} :
        /\ files' = [files EXCEPT ![f[p].path] = WriteLog(@, f[p].pos, data)]
        /\ writes' = Append(writes, WriteRecord(p, data, TRUE))
    /\ f' = [f EXCEPT ![p] = NoHandle]
    /\ Completed(p, "write")
    /\ UNCHANGED <<stdin, environ, context, log_path, entry, dirs, readonly,
                   dirs0, files0, started, inv>>

\* the same write call failing (OSError: the disk is full) after part of the
\* line, or none of it, reached the file
WriteFails(p) ==
    /\ pc[p] = "write"
    /\ \E line \in {Line(entry[p])} : \E n \in TornCuts(line) :
        \E data \in {SubSeq(line, 1, n)} :
        /\ files' = [files EXCEPT ![f[p].path] = WriteLog(@, f[p].pos, data)]
        /\ writes' = IF n = 0 THEN writes
                     ELSE Append(writes, WriteRecord(p, data, FALSE))
    /\ f' = [f EXCEPT ![p] = NoHandle]
    /\ Raise(p, "write")
    /\ UNCHANGED <<stdin, environ, context, log_path, entry, dirs, readonly,
                   dirs0, files0, started, inv>>

Step(p) ==
    \/ Parse(p)
    \/ Resolve(p)
    \/ Mkdir(p)
    \/ Build(p)
    \/ Open(p)
    \/ Write(p)
    \/ WriteFails(p)

(***************************************************************************)
(* Spec: the host runs hooks in parallel, each a process of its own.       *)
(***************************************************************************)
\* the parallel hooks of one command inherit the one environment of the host
RaceEnvirons == {[HOME |-> HomeStr]}

Next == \E p \in Procs : Invoke(p, FewStdins, RaceEnvirons) \/ Step(p)

Spec == Init /\ [][Next]_vars

(***************************************************************************)
(* SpecSeq: the invocations run one after the other.                       *)
(***************************************************************************)
NextSeq == Invoke("p1", FewStdins, FewEnvirons) \/ Step("p1")

SpecSeq == Init /\ [][NextSeq]_vars

\* the same, a process once started being scheduled until it exits; the host
\* need not start another
SpecSeqFair == SpecSeq /\ WF_vars(Step("p1"))

(***************************************************************************)
(* SpecOne: the host runs the hook once, on any input, environment and     *)
(* file system.                                                            *)
(***************************************************************************)
InvokeOnce ==
    /\ started = 0
    /\ Invoke("p1", Stdins, Environs)

NextOne == InvokeOnce \/ Step("p1")

SpecOne == Init /\ [][NextOne]_vars

(***************************************************************************)
(* What the properties read off a state.                                   *)
(***************************************************************************)
\* the content of the file at a, before the first invocation and now
Before(a) == IF a \in DOMAIN files0 THEN files0[a] ELSE <<>>
Current(a) == IF a \in DOMAIN files THEN files[a] ELSE <<>>
Added(a) == SubSeq(Current(a), Len(Before(a)) + 1, Len(Current(a)))

\* the newline-terminated lines of a text, without their newline
NewlinesIn(s) == {i \in 1..Len(s) : s[i] = NL}
NthNewline(s, k) ==
    CHOOSE i \in NewlinesIn(s) : Cardinality({j \in NewlinesIn(s) : j <= i}) = k
CompleteLines(s) ==
    [k \in 1..Cardinality(NewlinesIn(s)) |->
        SubSeq(s, IF k = 1 THEN 1 ELSE NthNewline(s, k - 1) + 1, NthNewline(s, k) - 1)]

WritesTo(a) == SelectSeq(writes, LAMBDA w : w.path = a)
DataOf(ws) == Concat([i \in 1..Len(ws) |-> ws[i].data])
AllWhole(ws) == \A i \in 1..Len(ws) : ws[i].whole

EntryKeys == {<<"command">>, <<"timestamp">>, <<"args_count">>, <<"flags_count">>}

\* a record with exactly the four fields of a Log Entry
IsLogEntry(x) ==
    /\ x.t = "dict"
    /\ Len(x.v) = 4
    /\ {x.v[i][1] : i \in 1..Len(x.v)} = EntryKeys

\* the text is one line: a Log Entry that parses back to e, and its newline
IsLineOf(data, e) ==
    /\ data # <<>>
    /\ data[Len(data)] = NL
    /\ CompleteLines(data) = <<SubSeq(data, 1, Len(data) - 1)>>
    /\ Loads(SubSeq(data, 1, Len(data) - 1)) = ParseOk(e, <<>>)
    /\ IsLogEntry(e)

\* the lines of a text are the entries of the writes ws, one each, in order
LinesAre(text, ws) ==
    LET ls == CompleteLines(text) IN
    /\ Len(ls) = Len(ws)
    /\ text = Concat([i \in 1..Len(ls) |-> ls[i] \o <<NL>>])
    /\ \A i \in 1..Len(ls) : Loads(ls[i]) = ParseOk(ws[i].entry, <<>>)

\* the directory main() makes for process p, once log_path is set
ParentDir(p) == Abs(Parent(log_path[p]))
LogFile(p) == Abs(log_path[p])

\* the mkdir step of p ran and did not raise
PastMkdir(p) ==
    \/ pc[p] \in {"build", "open", "write", "done"}
    \/ pc[p] = "failed" /\ failed_at[p] \in {"build", "open", "write"}

\* something on the file system stops the directory a from being made: a
\* regular file on the way, or a missing directory whose parent denies creation
Obstructed(ds, fl, ro, a) ==
    \E q \in Ancestors({a}) : q \in DOMAIN fl \/ (q \notin ds /\ Parent(q) \in ro)

ValidArgs == {ArgsOf(n) : n \in 0..MaxArgs}
ValidFlags == {FlagsOf(m) : m \in 0..MaxFlags}

\* the documents whose fields, where present, are of the documented types:
\* the fields given, and the text on standard input
ValidDocs ==
    {[command |-> c, timestamp |-> t, args |-> a, flags |-> fl,
      text |-> Dumps(Context(c, t, a, fl))] :
        c \in Commands, t \in Timestamps,
        a \in ValidArgs \cup {Absent}, fl \in ValidFlags \cup {Absent}}

\* the documents that are JSON but from which no entry can be built: no
\* object, or an object whose args or flags has no length
BadShapeTexts ==
    {Dumps(x) : x \in NonObjects}
        \cup {Dumps(Context(c, t, a, fl)) :
                c \in Commands, t \in Timestamps,
                a \in {PyNone}, fl \in ValidFlags \cup {Absent, PyInt(7)}}
        \cup {Dumps(Context(c, t, a, fl)) :
                c \in Commands, t \in Timestamps,
                a \in ValidArgs \cup {Absent, PyNone}, fl \in {PyInt(7)}}

\* the place of a step in the one pass of main()
StepRank(step) ==
    CASE step = "idle"    -> 0
      [] step = "parse"   -> 1
      [] step = "resolve" -> 2
      [] step = "mkdir"   -> 3
      [] step = "build"   -> 4
      [] step = "open"    -> 5
      [] step = "write"   -> 6
      [] step \in Terminal -> 7

\* the entry process p wrote, read back from the only line added to its file
WrittenEntry(p) == Loads(CompleteLines(Added(LogFile(p)))[1]).val

WroteOneLine(p) ==
    /\ Len(CompleteLines(Added(LogFile(p)))) = 1
    /\ Added(LogFile(p)) = CompleteLines(Added(LogFile(p)))[1] \o <<NL>>
    /\ Loads(CompleteLines(Added(LogFile(p)))[1]).ok

(***************************************************************************)
(* The properties.                                                         *)
(***************************************************************************)
\* C1, in every state of sequential runs: each log file is what it was before
\* the first invocation followed by the data of the writes made to it, in the
\* order of the invocations; the write of a successful invocation is one
\* complete newline-terminated Log Entry, its own; the file has gained as many
\* lines as invocations succeeded, and when no failed write left a fragment
\* these lines are the entries of the successful invocations, in order.
C1_Lines ==
    /\ \A a \in LogPaths :
        LET ws == WritesTo(a) IN
        /\ Current(a) = Before(a) \o DataOf(ws)
        /\ \A i \in 1..Len(ws) :
            /\ ws[i].whole => ws[i].data = Line(ws[i].entry) /\ IsLineOf(ws[i].data, ws[i].entry)
            /\ \A j \in 1..Len(ws) : i < j => ws[i].inv < ws[j].inv
        /\ Len(CompleteLines(Added(a))) = Cardinality({i \in 1..Len(ws) : ws[i].whole})
        /\ AllWhole(ws) => LinesAre(Added(a), ws)
    /\ \A p \in Procs :
        pc[p] = "done" =>
            /\ writes # <<>>
            /\ writes[Len(writes)].inv = inv[p]
            /\ writes[Len(writes)].whole
            /\ writes[Len(writes)].path = LogFile(p)
            /\ writes[Len(writes)].entry = entry[p]

\* C1, in every step: a file that exists stays, and its content before the
\* step is a prefix of its content after it.
C1_Step ==
    \A a \in DOMAIN files : a \in DOMAIN files' /\ IsPrefix(files[a], files'[a])

\* C1: the log file is append-only, and k successful invocations in sequence
\* add exactly k lines, each the complete Log Entry of its invocation, in
\* invocation order.
C1_AppendOnly == [](C1_Lines) /\ [][C1_Step]_vars

\* C1's case: a log that held a line before, and two successful invocations
\* in sequence that wrote to it.
C1_Witness ==
    \E a \in LogPaths :
        /\ Before(a) # <<>>
        /\ Len(WritesTo(a)) >= 2
        /\ AllWhole(WritesTo(a))
        /\ pc["p1"] = "done"

\* C2: an invocation given args of length n and flags with m entries, or
\* without one of them (then the count is 0), that succeeds has written an
\* entry whose args_count is n and whose flags_count is m.
C2_Counts ==
    pc["p1"] = "done" =>
        \A d \in ValidDocs :
            stdin["p1"] = d.text =>
                /\ WroteOneLine("p1")
                /\ DictGet(WrittenEntry("p1"), <<"args_count">>, PyNone)
                      = PyInt(IF d.args = Absent THEN 0 ELSE Len(d.args.v))
                /\ DictGet(WrittenEntry("p1"), <<"flags_count">>, PyNone)
                      = PyInt(IF d.flags = Absent THEN 0 ELSE Len(d.flags.v))

\* C2's case: two args and one flag, counted and written.
C2_Witness ==
    /\ pc["p1"] = "done"
    /\ \E d \in ValidDocs :
        d.args = ArgsOf(2) /\ d.flags = FlagsOf(1) /\ stdin["p1"] = d.text
    /\ DictGet(WrittenEntry("p1"), <<"args_count">>, PyNone) = PyInt(2)
    /\ DictGet(WrittenEntry("p1"), <<"flags_count">>, PyNone) = PyInt(1)

\* C3: an invocation whose standard input is empty or no JSON never gets
\* past the parse step; it ends with a non-zero status, raised by the parse,
\* and the directories, the files and their content are those before it.
C3_ParseFailure ==
    (pc["p1"] # "idle" /\ stdin["p1"] \in NonJson) =>
        /\ pc["p1"] \in {"parse", "failed"}
        /\ pc["p1"] = "failed" => exit_status["p1"] # 0 /\ failed_at["p1"] = "parse"
        /\ files = files0
        /\ dirs = dirs0
        /\ writes = <<>>
        /\ log_path["p1"] = <<>>

\* C3's case: the invocation has failed on input that is no JSON, a log
\* being there.
C3_Witness ==
    /\ stdin["p1"] \in NonJson
    /\ stdin["p1"] # <<>>
    /\ pc["p1"] = "failed"
    /\ \E a \in DOMAIN files0 : a \in LogPaths

\* C4: the log path is <base>/mine/command_log.jsonl, the base being
\* XDG_DATA_HOME when it is set and not empty, and ~/.local/share when it is
\* unset or empty.
C4_DataHome ==
    \A p \in Procs :
        log_path[p] # <<>> =>
            LET set == /\ "XDG_DATA_HOME" \in DOMAIN environ[p]
                       /\ environ[p]["XDG_DATA_HOME"] # <<>>
                base == IF set THEN environ[p]["XDG_DATA_HOME"]
                        ELSE environ[p]["HOME"] \o <<"/", ".local", "/", "share">>
            IN  log_path[p] = PathOf(base) \o <<"mine", "command_log.jsonl">>

\* C5: an invocation given a JSON object from which any of command,
\* timestamp, args and flags is absent fails at no step but a storage one
\* (mkdir, open, write); when it succeeds the entry written has exactly the
\* four fields, its command is the one given or "unknown", its timestamp the
\* one given or the clock's, its counts integers.
C5_AbsentTolerated ==
    \A d \in ValidDocs :
        stdin["p1"] = d.text =>
            /\ failed_at["p1"] \notin {"parse", "build"}
            /\ pc["p1"] = "done" =>
                /\ WroteOneLine("p1")
                /\ IsLogEntry(WrittenEntry("p1"))
                /\ DictGet(WrittenEntry("p1"), <<"command">>, PyNone)
                      = (IF d.command = Absent THEN PyStr(<<"unknown">>) ELSE d.command)
                /\ IF d.timestamp = Absent
                   THEN DictGet(WrittenEntry("p1"), <<"timestamp">>, PyNone)
                            \in {PyStr(now) : now \in Clock}
                   ELSE DictGet(WrittenEntry("p1"), <<"timestamp">>, PyNone) = d.timestamp
                /\ DictGet(WrittenEntry("p1"), <<"args_count">>, PyNone).t = "int"
                /\ DictGet(WrittenEntry("p1"), <<"flags_count">>, PyNone).t = "int"

\* C5's case: the empty object, written with the command "unknown".
C5_Witness ==
    /\ stdin["p1"] = Dumps(PyDict(<<>>))
    /\ pc["p1"] = "done"
    /\ DictGet(WrittenEntry("p1"), <<"command">>, PyNone) = PyStr(<<"unknown">>)

\* C6: with invocations running in parallel, each makes at most one write
\* call, which carries its whole entry and the newline when it succeeds; each
\* log file is what it was followed by the data of the writes made to it, in
\* the order they were made, so no write is overwritten or lost; an
\* invocation that succeeded has exactly one write, whole; and when every
\* write to a file was whole the lines added are the entries of these writes,
\* one each.
C6_Concurrent ==
    /\ \A i, j \in 1..Len(writes) : i # j => writes[i].inv # writes[j].inv
    /\ \A i \in 1..Len(writes) :
        writes[i].whole =>
            writes[i].data = Line(writes[i].entry) /\ IsLineOf(writes[i].data, writes[i].entry)
    /\ \A a \in LogPaths :
        /\ Current(a) = Before(a) \o DataOf(WritesTo(a))
        /\ AllWhole(WritesTo(a)) => LinesAre(Added(a), WritesTo(a))
    /\ \A p \in Procs :
        pc[p] = "done" =>
            \E i \in 1..Len(writes) :
                /\ writes[i].inv = inv[p]
                /\ writes[i].whole
                /\ writes[i].path = LogFile(p)
                /\ writes[i].entry = entry[p]

\* C6's case: two invocations succeeded on the same file, one of them writing
\* after the other had opened the file and before it wrote.
C6_Witness ==
    /\ \A p \in Procs : pc[p] = "done"
    /\ \E a \in LogPaths :
        /\ Len(WritesTo(a)) >= 2
        /\ AllWhole(WritesTo(a))
        /\ \E i \in 1..Len(WritesTo(a)) : WritesTo(a)[i].pos < WritesTo(a)[i].at

\* C7: once the mkdir step is past, the parent directory of the log file
\* exists; the step fails only when the directory was missing and something
\* obstructs making it; when the directory was there already the step does
\* not fail and leaves the directories and the files as they were; and an
\* invocation that succeeds has written its entry, after what the log held.
C7_ParentDir ==
    \A p \in {"p1"} :
        /\ PastMkdir(p) => ParentDir(p) \in dirs
        /\ (pc[p] = "failed" /\ failed_at[p] = "mkdir") =>
              /\ ParentDir(p) \notin dirs0
              /\ Obstructed(dirs0, files0, readonly, ParentDir(p))
        /\ (PastMkdir(p) /\ ParentDir(p) \in dirs0) =>
              /\ dirs = dirs0
              /\ pc[p] \in {"build", "open"} => files = files0
              /\ IsPrefix(Before(LogFile(p)), Current(LogFile(p)))
        /\ pc[p] = "done" =>
              /\ ParentDir(p) \in dirs
              /\ Current(LogFile(p)) = Before(LogFile(p)) \o Line(entry[p])

\* C7's case: the directory was missing, the invocation made it and wrote.
C7_Witness ==
    /\ pc["p1"] = "done"
    /\ ParentDir("p1") \notin dirs0
    /\ ParentDir("p1") \in dirs
    /\ Added(LogFile("p1")) = Line(entry["p1"])

\* C8, in every state of sequential runs: a running process has no exit
\* status; one that is done exited with status 0, raised nothing, and the last
\* write is its own, whole, the line of its entry; one that failed exited with
\* a non-zero status at one of the steps and none of its writes is whole; the
\* status is 0 exactly when the line of the invocation was appended; no
\* invocation has two writes; and a file changes by these writes alone,
\* gaining one line for each whole one.
C8_Terminal ==
    /\ \A p \in {"p1"} :
        /\ pc[p] \in Running => exit_status[p] = -1 /\ failed_at[p] = ""
        /\ pc[p] = "done" =>
            /\ exit_status[p] = 0
            /\ failed_at[p] = ""
            /\ writes # <<>>
            /\ writes[Len(writes)].inv = inv[p]
            /\ writes[Len(writes)].whole
            /\ writes[Len(writes)].path = LogFile(p)
            /\ writes[Len(writes)].data = Line(entry[p])
        /\ pc[p] = "failed" =>
            /\ exit_status[p] # 0
            /\ failed_at[p] \in {"parse", "mkdir", "build", "open", "write"}
            /\ \A i \in 1..Len(writes) : writes[i].inv = inv[p] => ~writes[i].whole
        /\ pc[p] \in Terminal =>
            (exit_status[p] = 0 <=>
                \E i \in 1..Len(writes) : writes[i].inv = inv[p] /\ writes[i].whole)
    /\ \A i, j \in 1..Len(writes) : i # j => writes[i].inv # writes[j].inv
    /\ \A a \in LogPaths :
        /\ Current(a) = Before(a) \o DataOf(WritesTo(a))
        /\ Len(CompleteLines(Added(a)))
              = Cardinality({i \in 1..Len(WritesTo(a)) : WritesTo(a)[i].whole})

\* C8, in every step: the process moves on to a later step or to a terminal
\* state, or is started anew from a terminal state; no step is run again.
C8_Forward ==
    /\ pc'["p1"] # pc["p1"]
    /\ \/ StepRank(pc'["p1"]) > StepRank(pc["p1"])
       \/ pc["p1"] \in Terminal /\ pc'["p1"] = "parse" /\ inv'["p1"] = inv["p1"] + 1

\* C8: an invocation is one pass with no retry that ends in success (status
\* 0, one line appended) or in failure (non-zero status); the status is 0 if
\* and only if the entry line was appended.
C8_SinglePass ==
    /\ [](C8_Terminal)
    /\ [][C8_Forward]_vars
    /\ (pc["p1"] = "parse") ~> (pc["p1"] \in Terminal)

\* C8's case: the write failed after part of the line reached the file; the
\* status is not 0 and the invocation has no whole write.
C8_Witness ==
    /\ pc["p1"] = "failed"
    /\ failed_at["p1"] = "write"
    /\ exit_status["p1"] = 1
    /\ writes # <<>>
    /\ writes[Len(writes)].inv = inv["p1"]
    /\ ~writes[Len(writes)].whole

\* C9: an invocation that failed at the parse, at the making of the
\* directory, at the building of the entry or at the opening of the file has
\* written nothing: the files and their content are those before it; and it
\* takes no further step.
C9_NoPartialWrite ==
    \A p \in {"p1"} :
        (pc[p] = "failed" /\ failed_at[p] \in {"parse", "mkdir", "build", "open"}) =>
            /\ files = files0
            /\ writes = <<>>
            /\ exit_status[p] # 0
            /\ ~ENABLED Step(p)

\* C9's case: the log file could not be opened.
C9_Witness ==
    /\ pc["p1"] = "failed"
    /\ failed_at["p1"] = "open"
    /\ ParentDir("p1") \in dirs

\* C10: a parse failure leaves the directories and the files as they were; a
\* failure at the building of the entry comes after the mkdir step, so the
\* parent directory exists (made by this invocation when it was missing),
\* while no line is appended and the status is not 0; and a document that is
\* JSON but no object, or whose args or flags has no length, never gets to
\* the opening of the file.
C10_BuildAfterMkdir ==
    \A p \in {"p1"} :
        /\ (pc[p] = "failed" /\ failed_at[p] = "parse") =>
            dirs = dirs0 /\ files = files0
        /\ (pc[p] = "failed" /\ failed_at[p] = "build") =>
            /\ ParentDir(p) \in dirs
            /\ ParentDir(p) \notin dirs0 => dirs # dirs0
            /\ files = files0
            /\ writes = <<>>
            /\ exit_status[p] # 0
        /\ stdin[p] \in BadShapeTexts =>
            /\ pc[p] \notin {"open", "write", "done"}
            /\ failed_at[p] \in {"", "mkdir", "build"}

\* C10's case: a JSON array on standard input, the directory missing before:
\* the invocation made the directory and then failed.
C10_Witness ==
    /\ stdin["p1"] = Dumps(PyList(<<>>))
    /\ pc["p1"] = "failed"
    /\ failed_at["p1"] = "build"
    /\ ParentDir("p1") \notin dirs0
    /\ ParentDir("p1") \in dirs

====
